---- MODULE Spec2Model ----
(***************************************************************************)
(* A model of the simulation core of src/src/main.rs (Tetra Astroblasto):  *)
(* the fixed-step update of GameState, its collision, cull and respawn     *)
(* steps, and the rock spawner create_rocks.                               *)
(*                                                                         *)
(* Numbers.  The program computes in f32, and so does the model: an f32 is *)
(* held as the integer whose magnitude is the 31 low bits of its IEEE 754  *)
(* encoding (biased exponent * 2^23 + fraction) and whose sign is its      *)
(* sign, so that the order of the integers is the order of the numbers.    *)
(* F32Add, F32Sub, F32Mul, F32Div and F32Sqrt give the correctly rounded   *)
(* result (round to nearest, ties to even) as the hardware does.  sin and  *)
(* cos are the values of the C library, tabulated for the angles the model *)
(* reaches.  Subnormal results do not occur and are flushed to zero; the   *)
(* two zeros are one.                                                      *)
(***************************************************************************)
EXTENDS Integers, Sequences, FiniteSets, TLC

VARIABLES
    player,               \* GameState.player
    shots,                \* GameState.shots
    rocks,                \* GameState.rocks
    level,                \* GameState.level
    score,                \* GameState.score
    input,                \* GameState.input
    player_shot_timeout,  \* GameState.player_shot_timeout
    quit,                 \* tetra::window::quit was called by the last update
    sounds,               \* the sounds the last update played, in order
    at_collision,         \* the actors as handle_collision found and left them in the last update
    next_id,              \* serial number of the next actor created
    last_fire,            \* the tick of the most recent shot, 0 before the first
    ticks,                \* number of updates run so far
    pressed,              \* some update's input differed from that of the update before
    call                  \* a direct call of create_rocks and its outcome

vars == <<player, shots, rocks, level, score, input, player_shot_timeout,
          quit, sounds, at_collision, next_id, last_fire, ticks, pressed, call>>

(***************************************************************************)
(* f32 arithmetic                                                          *)
(***************************************************************************)
Abs(n) == IF n < 0 THEN -n ELSE n
Sign(n) == IF n < 0 THEN -1 ELSE IF n > 0 THEN 1 ELSE 0

\* the number of bits of n (0 <= n < 2^31)
BitLen2(n) == IF n >= 2 THEN 2 ELSE n
BitLen4(n) == IF n >= 4 THEN 2 + BitLen2(n \div 4) ELSE BitLen2(n)
BitLen8(n) == IF n >= 16 THEN 4 + BitLen4(n \div 16) ELSE BitLen4(n)
BitLen16(n) == IF n >= 256 THEN 8 + BitLen8(n \div 256) ELSE BitLen8(n)
BitLen(n) == IF n >= 65536 THEN 16 + BitLen16(n \div 65536) ELSE BitLen16(n)

\* An f32 p other than 0 is Sign(p) * Mantissa(p) * 2^(Exponent(p) - F32Bias),
\* with 2^23 <= Mantissa(p) < 2^24.
F32Bias == 150
F32Hidden == 2^23
Exponent(p) == Abs(p) \div F32Hidden
Mantissa(p) == F32Hidden + (Abs(p) % F32Hidden)

\* The f32 nearest to sign * n * 2^x, ties to even, for n of 24 + s bits
\* (0 <= n < 2^31).  A caller whose n stands for a value that has further bits
\* below it passes 2 * n + 1, of at least 26 bits.
F32Round(sign, n, s, x) ==
    LET q == IF s > 0 THEN n \div 2^s ELSE n * 2^(-s)
        r == IF s > 0 THEN n % 2^s ELSE 0
        half == IF s > 0 THEN 2^(s - 1) ELSE 1
        e == x + s + F32Bias
    IN  IF n = 0 \/ e <= 0 THEN 0
        ELSE sign * (e * F32Hidden + q - F32Hidden
                     + (IF r > half \/ (r = half /\ q % 2 = 1) THEN 1 ELSE 0))

\* the integer n (|n| < 2^24) as f32
F32(n) == F32Round(Sign(n), Abs(n), BitLen(Abs(n)) - 24, 0)

\* a + b in f32: the mantissas are aligned with three more bits and a sticky one
F32Add(a, b) ==
    LET big == IF Abs(a) >= Abs(b) THEN a ELSE b
        small == IF Abs(a) >= Abs(b) THEN b ELSE a
        d == Exponent(big) - Exponent(small)
        ms == Mantissa(small) * 8
        ns == IF d >= 27 THEN 0 ELSE ms \div 2^d
        sticky == IF d >= 27 \/ ms % 2^d # 0 THEN 1 ELSE 0
        n == IF Sign(a) = Sign(b)
             THEN 2 * (Mantissa(big) * 8 + ns) + sticky
             ELSE 2 * (Mantissa(big) * 8 - ns - sticky) + sticky
    IN  IF small = 0 THEN big
        ELSE F32Round(Sign(big), n, BitLen(n) - 24, Exponent(big) - F32Bias - 4)

\* a - b in f32
F32Sub(a, b) == F32Add(a, -b)

\* a * b in f32: the 48-bit product of the mantissas is hi * 2^24 + lo
F32Mul(a, b) ==
    LET a1 == Mantissa(a) \div 4096
        a0 == Mantissa(a) % 4096
        b1 == Mantissa(b) \div 4096
        b0 == Mantissa(b) % 4096
        mid == a1 * b0 + a0 * b1
        t == a0 * b0 + (mid % 4096) * 4096
        lo == t % 2^24
        hi == a1 * b1 + (mid \div 4096) + (t \div 2^24)
        n == 2 * (hi * 16 + (lo \div 2^20)) + (IF lo % 2^20 # 0 THEN 1 ELSE 0)
    IN  IF a = 0 \/ b = 0 THEN 0
        ELSE F32Round(Sign(a) * Sign(b), n, IF n >= 2^28 THEN 5 ELSE 4,
                      Exponent(a) + Exponent(b) - 2 * F32Bias + 19)

\* a / b in f32 (b # 0): long division of the mantissas, 7 bits at a time
F32Div(a, b) ==
    LET mb == Mantissa(b)
        q0 == Mantissa(a) \div mb
        r0 == Mantissa(a) % mb
        q1 == q0 * 128 + ((r0 * 128) \div mb)
        r1 == (r0 * 128) % mb
        q2 == q1 * 128 + ((r1 * 128) \div mb)
        r2 == (r1 * 128) % mb
        q3 == q2 * 128 + ((r2 * 128) \div mb)
        r3 == (r2 * 128) % mb
        q4 == q3 * 128 + ((r3 * 128) \div mb)
        r4 == (r3 * 128) % mb
        n == 2 * q4 + (IF r4 # 0 THEN 1 ELSE 0)
    IN  IF a = 0 THEN 0
        ELSE F32Round(Sign(a) * Sign(b), n, IF n >= 2^29 THEN 6 ELSE 5,
                      Exponent(a) - Exponent(b) - 29)

RECURSIVE SqrtDigits(_, _, _, _)
\* The square root of m * 2^28, digit by digit: pairs is the number of bit
\* pairs still to take, those of m (13) and then the zeros (14); the result is
\* <<root, remainder>>.
SqrtDigits(m, pairs, root, rem) ==
    IF pairs = 0 THEN <<root, rem>>
    ELSE LET top == IF pairs > 14 THEN (m \div 4^(pairs - 15)) % 4 ELSE 0
             r == rem * 4 + top
             trial == root * 4 + 1
         IN  IF r >= trial
             THEN SqrtDigits(m, pairs - 1, root * 2 + 1, r - trial)
             ELSE SqrtDigits(m, pairs - 1, root * 2, r)

\* the square root of a in f32 (a >= 0)
F32Sqrt(a) ==
    LET odd == (Exponent(a) - F32Bias) % 2 = 1
        m == IF odd THEN Mantissa(a) * 2 ELSE Mantissa(a)
        k == IF odd THEN Exponent(a) - F32Bias - 1 ELSE Exponent(a) - F32Bias
        sr == SqrtDigits(m, 27, 0, 0)
        n == 2 * sr[1] + (IF sr[2] # 0 THEN 1 ELSE 0)
    IN  IF a = 0 THEN 0
        ELSE F32Round(1, n, BitLen(n) - 24, (k \div 2) - 15)

(***************************************************************************)
(* Program constants                                                       *)
(***************************************************************************)
DESIRED_FPS == 60
SHOT_SPEED == 200
PLAYER_THRUST == 100
PLAYER_TURN_RATE == 3
MAX_ROCK_VEL == 50
MAX_PHYSICS_VEL == 250
SCREEN_WIDTH == 800
SCREEN_HEIGHT == 600
SPAWN_MIN_RADIUS == 100
SPAWN_MAX_RADIUS == 250
INITIAL_ROCKS == 5

PLAYER_SHOT_TIME == F32Div(F32(1), F32(2))
PLAYER_LIFE == F32(1)
SHOT_LIFE == F32(2)
ROCK_LIFE == F32(1)

\* std::f32::consts::PI, the f32 nearest to pi (0x40490FDB)
PI == 1078530011

\* the pixel sizes of the three textures (player.png, rock.png, shot.png)
PlayerSize == 32
RockSize == 32
ShotSize == 8

\* let seconds = 1.0 / (DESIRED_FPS as f32)
seconds == F32Div(F32(1), F32(DESIRED_FPS))

(***************************************************************************)
(* vec_from_angle                                                          *)
(***************************************************************************)
\* Rows <<angle, sin(angle), cos(angle)>> of f32 values, as sinf and cosf
\* give them: for the facing after k = 0 .. 130 updates of turning right
\* (facing += seconds * PLAYER_TURN_RATE * 1.0 each), and then for the angles
\* rand * 2.0 * PI of the spawner at rand = 1/16, 2/16 .. 15/16.
TrigTable == <<
    <<0, 0, 1065353216>>, <<1028443342, 1028437750, 1065332249>>,
    <<1036831950, 1036809592, 1065269400>>, <<1041865114, 1041827408, 1065164826>>,
    <<1045220558, 1045131258, 1065018789>>, <<1048576001, 1048401785, 1064831653>>,
    <<1050253723, 1050103406, 1064603886>>, <<1051931445, 1051693135, 1064336059>>,
    <<1053609167, 1053254105, 1064028839>>, <<1055286889, 1054782416, 1063682995>>,
    <<1056964609, 1056274245, 1063299392>>, <<1057803470, 1057345238, 1062878987>>,
    <<1058642331, 1058049130, 1062422833>>, <<1059481192, 1058729344, 1061932069>>,
    <<1060320053, 1059384181, 1061407921>>, <<1061158914, 1060012002, 1060851701>>,
    <<1061997775, 1060611240, 1060264797>>, <<1062836636, 1061180395, 1059648678>>,
    <<1063675497, 1061718046, 1059004883>>, <<1064514358, 1062222849, 1058335021>>,
    <<1065353217, 1062693542, 1057640767>>, <<1065772647, 1063128947, 1056883104>>,
    <<1066192077, 1063527979, 1055407551>>, <<1066611507, 1063889638, 1053893957>>,
    <<1067030937, 1064213021, 1052346103>>, <<1067450367, 1064497319, 1050767859>>,
    <<1067869797, 1064741823, 1049163169>>, <<1068289227, 1064945921, 1046496088>>,
    <<1068708657, 1065109102, 1043205103>>, <<1069128087, 1065230960, 1039583825>>,
    <<1069547517, 1065311188, 1032904410>>, <<1069966947, 1065349588, 1017797316>>,
    <<1070386377, 1065346062, -1022309091>>, <<1070805807, 1065300621, -1034029535>>,
    <<1071225237, 1065213376, -1040445355>>, <<1071644667, 1065084547, -1043760635>>,
    <<1072064097, 1064914455, -1047046016>>, <<1072483527, 1064703525, -1049434644>>,
    <<1072902957, 1064452285, -1051035166>>, <<1073322387, 1064161363, -1052608575>>,
    <<1073741817, 1063831485, -1054150937>>, <<1073951536, 1063463476, -1055658402>>,
    <<1074161251, 1063058257, -1057045900>>, <<1074370966, 1062616840, -1057759126>>,
    <<1074580681, 1062140328, -1058449398>>, <<1074790396, 1061629912, -1059114992>>,
    <<1075000111, 1061086869, -1059754244>>, <<1075209826, 1060512554, -1060365557>>,
    <<1075419541, 1059908405, -1060947401>>, <<1075629256, 1059275931, -1061498324>>,
    <<1075838971, 1058616712, -1062016948>>, <<1076048686, 1057932397, -1062501976>>,
    <<1076258401, 1057224696, -1062952197>>, <<1076468116, 1056026148, -1063366484>>,
    <<1076677831, 1054527923, -1063743804>>, <<1076887546, 1052993854, -1064083211>>,
    <<1077097261, 1051427776, -1064383859>>, <<1077306976, 1049833602, -1064644996>>,
    <<1077516691, 1047854637, -1064865969>>, <<1077726406, 1044577938, -1065046225>>,
    <<1077936121, 1041269298, -1065185314>>, <<1078145836, 1035686582, -1065282889>>,
    <<1078355551, 1026183765, -1065338705>>, <<1078565266, -1007269620, -1065352623>>,
    <<1078774981, -1030690759, -1065324609>>, <<1078984696, -1037931627, -1065254732>>,
    <<1079194411, -1042384789, -1065143167>>, <<1079404126, -1045683609, -1064990192>>,
    <<1079613841, -1048761862, -1064796191>>, <<1079823556, -1050372488, -1064561648>>,
    <<1080033271, -1051957657, -1064287149>>, <<1080242986, -1053513406, -1063973380>>,
    <<1080452701, -1055035847, -1063621126>>, <<1080662416, -1056521174, -1063231267>>,
    <<1080872131, -1057465142, -1062804778>>, <<1081081846, -1058165175, -1062342724>>,
    <<1081291561, -1058841240, -1061846261>>, <<1081501276, -1059491647, -1061316629>>,
    <<1081710991, -1060114771, -1060755152>>, <<1081920706, -1060709054, -1060163234>>,
    <<1082130421, -1061273010, -1059542354>>, <<1082235284, -1061805231, -1058894063>>,
    <<1082340142, -1062304388, -1058219980>>, <<1082445000, -1062769231, -1057521791>>,
    <<1082549858, -1063198598, -1056637877>>, <<1082654716, -1063591416, -1055155662>>,
    <<1082759574, -1063946702, -1053636033>>, <<1082864432, -1064263570, -1052082790>>,
    <<1082969290, -1064541227, -1050499815>>, <<1083074148, -1064778978, -1048891063>>,
    <<1083179006, -1064976231, -1045945113>>, <<1083283864, -1065132491, -1042648742>>,
    <<1083388722, -1065247368, -1038463110>>, <<1083493580, -1065320574, -1031758222>>,
    <<1083598438, -1065351928, -1011546783>>, <<1083703296, -1065341351, 1025115319>>,
    <<1083808154, -1065288869, 1035154116>>, <<1083913012, -1065194612, 1041004610>>,
    <<1084017870, -1065058818, 1044315455>>, <<1084122728, -1064881825, 1047595015>>,
    <<1084227586, -1064664075, 1049705546>>, <<1084332444, -1064406113, 1051301794>>,
    <<1084437302, -1064108584, 1052870262>>, <<1084542160, -1063772232, 1054407029>>,
    <<1084647018, -1063397896, 1055908254>>, <<1084751876, -1062986513, 1057167396>>,
    <<1084856734, -1062539111, 1057876887>>, <<1084961592, -1062056808, 1058563131>>,
    <<1085066450, -1061540810, 1059224412>>, <<1085171308, -1060992407, 1059859077>>,
    <<1085276166, -1060412968, 1060465540>>, <<1085381024, -1059803944, 1061042285>>,
    <<1085485882, -1059166855, 1061587871>>, <<1085590740, -1058503294, 1062100933>>,
    <<1085695598, -1057814920, 1062580190>>, <<1085800456, -1057103453, 1063024444>>,
    <<1085905314, -1055776735, 1063432583>>, <<1086010172, -1054272207, 1063803589>>,
    <<1086115030, -1052732475, 1064136533>>, <<1086219888, -1051161385, 1064430584>>,
    <<1086324746, -1049562867, 1064685007>>, <<1086429604, -1047305828, 1064899165>>,
    <<1086534462, -1044023163, 1065072523>>, <<1086639320, -1040709943, 1065204648>>,
    <<1086744178, -1034561507, 1065295210>>, <<1086849036, -1023926511, 1065343982>>,
    <<1086953894, 1015663028, 1065350843>>, <<1087058752, 1032372039, 1065315775>>,
    <<1087163610, 1039053985, 1065238866>>, <<1087268468, 1042942110, 1065120308>>,
    <<1087373326, 1046235680, 1064960397>>, <<1053364187, 1053028118, 1064076126>>,
    <<1061752795, 1060439283, 1060439283>>, <<1066847204, 1064076126, 1053028117>>,
    <<1070141403, 1065353216, -859553070>>, <<1073435602, 1064076126, -1053028120>>,
    <<1075235812, 1060439283, -1060439283>>, <<1076882912, 1053028112, -1064076128>>,
    <<1078530011, -867941678, -1065353216>>, <<1080177110, -1053028117, -1064076126>>,
    <<1081824210, -1060439285, -1060439281>>, <<1082800871, -1064076129, -1053028107>>,
    <<1083624420, -1065353216, 843898414>>, <<1084447970, -1064076125, 1053028123>>,
    <<1085271520, -1060439279, 1060439287>>, <<1086095069, -1053028117, 1064076127>> >>

\* the row of the table for an angle of 0 or above
TrigRow == [a \in {TrigTable[i][1] : i \in DOMAIN TrigTable} |->
               TrigTable[CHOOSE i \in DOMAIN TrigTable : TrigTable[i][1] = a]]

\* (angle.sin(), angle.cos()); sinf is odd and cosf is even
vec_from_angle(angle) ==
    LET row == TrigRow[Abs(angle)]
    IN  <<Sign(angle) * row[2], row[3]>>

(***************************************************************************)
(* Actor                                                                   *)
(***************************************************************************)
\* An actor carries, beside the fields of struct Actor, its serial number id and
\* the tick born in which it was created (0: by GameState::new); kind stands
\* for its texture.

\* texture.width() as f32 and texture.height() as f32 of the actor's texture
width(actor) ==
    F32(CASE actor.kind = "player" -> PlayerSize
          [] actor.kind = "rock"   -> RockSize
          [] OTHER                 -> ShotSize)

height(actor) == width(actor)

create_player(id, born) ==
    [id |-> id, born |-> born, kind |-> "player", pos |-> <<0, 0>>, facing |-> 0,
     velocity |-> <<0, 0>>, life |-> PLAYER_LIFE]

create_rock(id, born) ==
    [id |-> id, born |-> born, kind |-> "rock", pos |-> <<0, 0>>, facing |-> 0,
     velocity |-> <<0, 0>>, life |-> ROCK_LIFE]

create_shot(id, born) ==
    [id |-> id, born |-> born, kind |-> "shot", pos |-> <<0, 0>>, facing |-> 0,
     velocity |-> <<0, 0>>, life |-> SHOT_LIFE]

\* the vector v times the scalar k, component by component
Scaled(v, k) == <<F32Mul(v[1], k), F32Mul(v[2], k)>>

\* the sum of the vectors u and v
Added(u, v) == <<F32Add(u[1], v[1]), F32Add(u[2], v[2])>>

\* actor.velocity += vec_from_angle(actor.facing) * PLAYER_THRUST * dt
player_thrust(actor, dt) ==
    LET direction_vector == vec_from_angle(actor.facing)
        thrust_vector == Scaled(direction_vector, F32(PLAYER_THRUST))
    IN  [actor EXCEPT !.velocity = Added(@, Scaled(thrust_vector, dt))]

\* Vec2::magnitude_squared
magnitude_squared(v) == F32Add(F32Mul(v[1], v[1]), F32Mul(v[2], v[2]))

\* no clamp at all
clamp_velocity_none(v) == v

\* velocity / mag * max, component by component
Rescaled(v, mag, max) ==
    <<F32Mul(F32Div(v[1], mag), max), F32Mul(F32Div(v[2], mag), max)>>

\* the velocity clamp of update_actor_position
clamp_velocity(v) ==
    IF magnitude_squared(v) > F32Mul(F32(MAX_PHYSICS_VEL), F32(MAX_PHYSICS_VEL))
    THEN Rescaled(v, F32Sqrt(magnitude_squared(v)), F32(MAX_PHYSICS_VEL))
    ELSE v

\* actor.velocity = v; let dv = actor.velocity * dt; actor.pos += dv
Integrated(actor, v, dt) == [actor EXCEPT !.velocity = v, !.pos = Added(@, Scaled(v, dt))]

update_actor_position(actor, dt) == Integrated(actor, clamp_velocity(actor.velocity), dt)

\* no wrap at all
wrap_coordinate_none(x, s) == x

\* a wrap that also moves a coordinate lying on the edge
wrap_coordinate_edge(x, s) ==
    LET bounds == F32Div(s, F32(2))
    IN  IF x >= bounds THEN F32Sub(x, s)
        ELSE IF x <= -bounds THEN F32Add(x, s)
        ELSE x

\* one coordinate of wrap_actor_position: s is the screen's size along it
wrap_coordinate(x, s) ==
    LET bounds == F32Div(s, F32(2))
    IN  IF x > bounds THEN F32Sub(x, s)
        ELSE IF x < -bounds THEN F32Add(x, s)
        ELSE x

wrap_actor_position(actor, sx, sy) ==
    [actor EXCEPT !.pos = <<wrap_coordinate(actor.pos[1], sx),
                            wrap_coordinate(actor.pos[2], sy)>>]

\* a timed life that never runs down
handle_timed_life_frozen(actor, dt) == actor

handle_timed_life(actor, dt) == [actor EXCEPT !.life = F32Sub(@, dt)]

\* tetra's Rectangle::intersects on the two actors' bounding rectangles
\* Rectangle::new(pos.x, pos.y, width, height)
intersects(a, b) ==
    /\ a.pos[1] < F32Add(b.pos[1], width(b))
    /\ F32Add(a.pos[1], width(a)) > b.pos[1]
    /\ a.pos[2] < F32Add(b.pos[2], height(b))
    /\ F32Add(a.pos[2], height(a)) > b.pos[2]

(***************************************************************************)
(* create_rocks                                                            *)
(***************************************************************************)
\* rand::random::<f32>() is a whole number of 1/RandScale in [0, 1)
RandScale == 2^24

\* the f32 of the random number n / RandScale
Rand(n) == F32Round(1, n, BitLen(n) - 24, -24)

\* One rock's four random numbers (each a numerator n of n / RandScale), in the
\* order new_rock draws them: for r_angle, for r_distance, and for the angle and
\* the magnitude of random_vec.
Draw(angle, dist, vangle, vmag) ==
    [angle |-> angle, dist |-> dist, vangle |-> vangle, vmag |-> vmag]

\* rand::random::<f32>() * 2.0 * std::f32::consts::PI
RandomAngle(n) == F32Mul(F32Mul(Rand(n), F32(2)), PI)

\* random_vec(max_magnitude), drawing vangle and then vmag
random_vec(max_magnitude, vangle, vmag) ==
    LET angle == RandomAngle(vangle)
        mag == F32Mul(Rand(vmag), max_magnitude)
    IN  Scaled(vec_from_angle(angle), mag)

\* new_rock with the distance drawn from 0 rather than from min_radius
new_rock_from_centre(id, born, exclusion, min_radius, max_radius, draw) ==
    LET r_angle == RandomAngle(draw.angle)
        r_distance == F32Mul(Rand(draw.dist), F32Sub(max_radius, min_radius))
    IN  [create_rock(id, born) EXCEPT
            !.pos = Added(exclusion, Scaled(vec_from_angle(r_angle), r_distance)),
            !.velocity = random_vec(F32(MAX_ROCK_VEL), draw.vangle, draw.vmag)]

\* the closure new_rock, once past its assert
new_rock(id, born, exclusion, min_radius, max_radius, draw) ==
    LET r_angle == RandomAngle(draw.angle)
        r_distance == F32Add(F32Mul(Rand(draw.dist), F32Sub(max_radius, min_radius)),
                             min_radius)
    IN  [create_rock(id, born) EXCEPT
            !.pos = Added(exclusion, Scaled(vec_from_angle(r_angle), r_distance)),
            !.velocity = random_vec(F32(MAX_ROCK_VEL), draw.vangle, draw.vmag)]

RECURSIVE rocks_loop(_, _, _, _, _, _, _, _, _)
\* the loop of create_rocks; the assert of new_rock fails as a panic
rocks_loop(count, vec, id, born, num, exclusion, min_radius, max_radius, draws) ==
    IF count = num THEN [panicked |-> FALSE, rocks |-> vec]
    ELSE IF ~(max_radius > min_radius) THEN [panicked |-> TRUE, rocks |-> <<>>]
    ELSE rocks_loop(count + 1,
                    Append(vec, new_rock(id + count, born, exclusion, min_radius,
                                         max_radius, draws[count + 1])),
                    id, born, num, exclusion, min_radius, max_radius, draws)

\* create_rocks(ctx, num, exclusion, min_radius, max_radius); the radii and the
\* exclusion centre are f32, draws are the random numbers it consumes, id is the
\* serial number of its first rock and born the tick of the call
create_rocks(id, born, num, exclusion, min_radius, max_radius, draws) ==
    rocks_loop(0, <<>>, id, born, num, exclusion, min_radius, max_radius, draws)

(***************************************************************************)
(* InputState and player_handle_input                                      *)
(***************************************************************************)
InputState == [xaxis : {-1, 0, 1}, yaxis : {0, 1}, fire : BOOLEAN]

InputDefault == [xaxis |-> 0, yaxis |-> 0, fire |-> FALSE]

player_handle_input(actor, in, dt) ==
    LET turned == [actor EXCEPT !.facing =
                      F32Add(@, F32Mul(F32Mul(dt, F32(PLAYER_TURN_RATE)), F32(in.xaxis)))]
    IN  IF in.yaxis > 0 THEN player_thrust(turned, dt) ELSE turned

(***************************************************************************)
(* GameState: gs is the record of its fields while update number gs.now    *)
(* runs                                                                    *)
(***************************************************************************)
GameState ==
    [player |-> player, shots |-> shots, rocks |-> rocks, level |-> level,
     score |-> score, player_shot_timeout |-> player_shot_timeout,
     sounds |-> <<>>, next_id |-> next_id, last_fire |-> last_fire, now |-> ticks + 1]

\* fire_player_shot without the reset of the cooldown
fire_player_shot_no_reset(gs) ==
    LET direction == vec_from_angle(gs.player.facing)
        shot == [create_shot(gs.next_id, gs.now) EXCEPT
                    !.pos = gs.player.pos,
                    !.facing = gs.player.facing,
                    !.velocity = <<F32Mul(F32(SHOT_SPEED), direction[1]),
                                   F32Mul(F32(SHOT_SPEED), direction[2])>>]
    IN  [gs EXCEPT !.shots = Append(@, shot),
                   !.sounds = Append(@, "shot"),
                   !.next_id = @ + 1,
                   !.last_fire = gs.now]

\* fire_player_shot with half the cooldown
fire_player_shot_half_cooldown(gs) ==
    LET direction == vec_from_angle(gs.player.facing)
        shot == [create_shot(gs.next_id, gs.now) EXCEPT
                    !.pos = gs.player.pos,
                    !.facing = gs.player.facing,
                    !.velocity = <<F32Mul(F32(SHOT_SPEED), direction[1]),
                                   F32Mul(F32(SHOT_SPEED), direction[2])>>]
    IN  [gs EXCEPT !.player_shot_timeout = F32Div(PLAYER_SHOT_TIME, F32(2)),
                   !.shots = Append(@, shot),
                   !.sounds = Append(@, "shot"),
                   !.next_id = @ + 1,
                   !.last_fire = gs.now]

fire_player_shot(gs) ==
    LET direction == vec_from_angle(gs.player.facing)
        shot == [create_shot(gs.next_id, gs.now) EXCEPT
                    !.pos = gs.player.pos,
                    !.facing = gs.player.facing,
                    !.velocity = <<F32Mul(F32(SHOT_SPEED), direction[1]),
                                   F32Mul(F32(SHOT_SPEED), direction[2])>>]
    IN  [gs EXCEPT !.player_shot_timeout = PLAYER_SHOT_TIME,
                   !.shots = Append(@, shot),
                   !.sounds = Append(@, "shot"),
                   !.next_id = @ + 1,
                   !.last_fire = gs.now]

Alive(actor) == actor.life > 0

\* a cull of the rocks alone
clear_dead_stuff_rocks_only(gs) == [gs EXCEPT !.rocks = SelectSeq(@, Alive)]

clear_dead_stuff(gs) ==
    [gs EXCEPT !.shots = SelectSeq(@, Alive), !.rocks = SelectSeq(@, Alive)]

\* a collision that spares the rock
collide_sparing_rock(gs, i, j) ==
    IF intersects(gs.rocks[i], gs.shots[j])
    THEN [gs EXCEPT !.shots[j].life = 0,
                    !.score = @ + 1,
                    !.sounds = Append(@, "hit")]
    ELSE gs

\* the body of the inner loop of handle_collision for rock i and shot j
collide(gs, i, j) ==
    IF intersects(gs.rocks[i], gs.shots[j])
    THEN [gs EXCEPT !.shots[j].life = 0,
                    !.rocks[i].life = 0,
                    !.score = @ + 1,
                    !.sounds = Append(@, "hit")]
    ELSE gs

RECURSIVE shot_loop(_, _, _)
\* for shot in &mut self.shots, from shot j on, for rock i
shot_loop(gs, i, j) ==
    IF j > Len(gs.shots) THEN gs ELSE shot_loop(collide(gs, i, j), i, j + 1)

\* a test against the player that restores its life when they are apart
collide_player_reviving(gs, i) ==
    IF intersects(gs.rocks[i], gs.player) THEN [gs EXCEPT !.player.life = 0]
    ELSE [gs EXCEPT !.player.life = PLAYER_LIFE]

\* a test against the player that destroys the rock as well
collide_player_breaking_rock(gs, i) ==
    IF intersects(gs.rocks[i], gs.player)
    THEN [gs EXCEPT !.player.life = 0, !.rocks[i].life = 0]
    ELSE gs

\* the test of rock i against the player
collide_player(gs, i) ==
    IF intersects(gs.rocks[i], gs.player) THEN [gs EXCEPT !.player.life = 0] ELSE gs

RECURSIVE rock_loop(_, _)
\* for rock in &mut self.rocks, from rock i on
rock_loop(gs, i) ==
    IF i > Len(gs.rocks) THEN gs
    ELSE rock_loop(shot_loop(collide_player(gs, i), i, 1), i + 1)

handle_collision(gs) == rock_loop(gs, 1)

\* the number of rocks check_for_level_respawn asks for at the level reached
RESPAWN_EXTRA == 5

\* a respawn that counts its rocks from the level left rather than the level reached
check_for_level_respawn_old_level(gs, draws) ==
    IF gs.rocks = <<>>
    THEN LET r == create_rocks(gs.next_id, gs.now, gs.level + RESPAWN_EXTRA,
                               gs.player.pos, F32(SPAWN_MIN_RADIUS), F32(SPAWN_MAX_RADIUS),
                               draws)
         IN  [gs EXCEPT !.level = @ + 1,
                        !.rocks = @ \o r.rocks,
                        !.next_id = @ + Len(r.rocks)]
    ELSE gs

\* a respawn that leaves the level as it is
check_for_level_respawn_same_level(gs, draws) ==
    IF gs.rocks = <<>>
    THEN LET r == create_rocks(gs.next_id, gs.now, gs.level + 1 + RESPAWN_EXTRA,
                               gs.player.pos, F32(SPAWN_MIN_RADIUS), F32(SPAWN_MAX_RADIUS),
                               draws)
         IN  [gs EXCEPT !.rocks = @ \o r.rocks,
                        !.next_id = @ + Len(r.rocks)]
    ELSE gs

check_for_level_respawn(gs, draws) ==
    IF gs.rocks = <<>>
    THEN LET r == create_rocks(gs.next_id, gs.now, gs.level + 1 + RESPAWN_EXTRA,
                               gs.player.pos, F32(SPAWN_MIN_RADIUS), F32(SPAWN_MAX_RADIUS),
                               draws)
         IN  [gs EXCEPT !.level = @ + 1,
                        !.rocks = @ \o r.rocks,
                        !.next_id = @ + Len(r.rocks)]
    ELSE gs

(***************************************************************************)
(* State::update                                                           *)
(***************************************************************************)
\* an update that fires before it turns the player
apply_input_fire_first(gs, in) ==
    LET g1 == [gs EXCEPT !.player_shot_timeout = F32Sub(@, seconds)]
        g2 == IF in.fire /\ g1.player_shot_timeout < 0 THEN fire_player_shot(g1) ELSE g1
    IN  [g2 EXCEPT !.player = player_handle_input(@, in, seconds)]

\* an update that fires whenever the fire key is down
apply_input_eager(gs, in) ==
    LET g1 == [gs EXCEPT !.player = player_handle_input(@, in, seconds),
                         !.player_shot_timeout = F32Sub(@, seconds)]
    IN  IF in.fire THEN fire_player_shot(g1) ELSE g1

\* player_handle_input, the cooldown and the shot
apply_input(gs, in) ==
    LET g1 == [gs EXCEPT !.player = player_handle_input(@, in, seconds),
                         !.player_shot_timeout = F32Sub(@, seconds)]
    IN  IF in.fire /\ g1.player_shot_timeout < 0 THEN fire_player_shot(g1) ELSE g1

\* one shot's turn in the loop over the shots
move_shot(act, dt) ==
    handle_timed_life(
        wrap_actor_position(update_actor_position(act, dt),
                            F32(SCREEN_WIDTH), F32(SCREEN_HEIGHT)),
        dt)

\* the physics of the player and of the shots
move_actors(gs, dt) ==
    [gs EXCEPT !.player = wrap_actor_position(update_actor_position(@, dt),
                                              F32(SCREEN_WIDTH), F32(SCREEN_HEIGHT)),
               !.shots = [i \in DOMAIN gs.shots |-> move_shot(gs.shots[i], dt)]]

\* the state handle_collision is called on
before_collision(in) == move_actors(apply_input(GameState, in), seconds)

\* an end state check that misses a life of exactly 0
game_over_strict(gs) == gs.player.life < 0

\* the end state check: quit is called when the player is dead
game_over(gs) == gs.player.life <= 0

(***************************************************************************)
(* Bounds of the model                                                     *)
(***************************************************************************)
\* the number of updates of a run
MaxTicks == 125
\* the highest level reached
MaxLevel == 2
\* the largest number of rocks asked of a direct call of create_rocks
MaxNum == 2
\* the number of ticks a run may wait before its keys are pressed
MaxIdle == 3

\* The random numbers of a rock straight ahead of the player at the nearest
\* distance (angle rand 0, distance rand 0: 100 px), and of a rock behind it
\* (angle rand 1/2, distance rand 0.745: 211.75 px).
Ahead == Draw(0, 0, RandScale \div 4, RandScale \div 2)
Behind == Draw(RandScale \div 2, 12499027, 3 * (RandScale \div 4), RandScale \div 4)
\* the random numbers of a rock straight ahead at the farthest distance (the
\* greatest rand: just under 250 px)
Far == Draw(0, RandScale - 1, RandScale \div 4, RandScale \div 2)

\* the draws of a batch of n rocks: the first rock's, and the other rocks'
Batch(n, first, others) == [i \in 1 .. n |-> IF i = 1 THEN first ELSE others]

\* the batches a game draws: all rocks ahead, the first ahead and the others
\* behind, all behind, or all far ahead
SpawnDraws(n) ==
    {Batch(n, d[1], d[2]) :
        d \in {<<Ahead, Ahead>>, <<Ahead, Behind>>, <<Behind, Behind>>, <<Far, Far>>}}

(***************************************************************************)
(* The game: GameState::new, then State::update once per tick              *)
(***************************************************************************)
NoCall == [outcome |-> "none"]

\* GameState::new, its rocks drawn as draws
new(draws) ==
    /\ player = create_player(0, 0)
    /\ shots = <<>>
    /\ rocks = create_rocks(1, 0, INITIAL_ROCKS, create_player(0, 0).pos,
                            F32(SPAWN_MIN_RADIUS), F32(SPAWN_MAX_RADIUS), draws).rocks
    /\ level = 0
    /\ score = 0
    /\ input = InputDefault
    /\ player_shot_timeout = 0
    /\ quit = FALSE
    /\ sounds = <<>>
    /\ at_collision = [player |-> create_player(0, 0), shots |-> <<>>, rocks |-> <<>>,
                       shots_after |-> <<>>, rocks_after |-> <<>>]
    /\ next_id = 1 + INITIAL_ROCKS
    /\ last_fire = 0
    /\ ticks = 0
    /\ pressed = FALSE
    /\ call = NoCall

Init == \E draws \in SpawnDraws(INITIAL_ROCKS) : new(draws)

\* the batches of draws check_for_level_respawn may consume, called on gs
RespawnDraws(gs) ==
    IF gs.rocks = <<>> THEN SpawnDraws(gs.level + 1 + RESPAWN_EXTRA) ELSE {<<>>}

\* The end of State::update with the keys of in held: met is the state
\* handle_collision was called on, hit the state it left, gs the state after
\* check_for_level_respawn.
update_end(in, met, hit, gs) ==
    /\ player' = gs.player
    /\ shots' = gs.shots
    /\ rocks' = gs.rocks
    /\ level' = gs.level
    /\ score' = gs.score
    /\ input' = in
    /\ player_shot_timeout' = gs.player_shot_timeout
    /\ quit' = game_over(gs)
    /\ sounds' = gs.sounds
    /\ at_collision' = [player |-> met.player, shots |-> met.shots,
                        rocks |-> met.rocks, shots_after |-> hit.shots,
                        rocks_after |-> hit.rocks]
    /\ next_id' = gs.next_id
    /\ last_fire' = gs.last_fire
    /\ ticks' = ticks + 1
    /\ pressed' = (pressed \/ in # input)
    /\ UNCHANGED call

\* State::update from check_for_level_respawn on, called on the state culled
update_respawn(in, met, hit, culled) ==
    \E draws \in RespawnDraws(culled) :
        update_end(in, met, hit, check_for_level_respawn(culled, draws))

\* State::update from clear_dead_stuff on
update_cull(in, met, hit) == update_respawn(in, met, hit, clear_dead_stuff(hit))

\* State::update from handle_collision on
update_collision(in, met) == update_cull(in, met, handle_collision(met))

\* State::update with the keys of in held
update(in) == update_collision(in, before_collision(in))

\* One tick of a run in which no key is down until, at one of the first
\* MaxIdle + 1 ticks or never, a combination among keys is pressed and held
\* from then on.
Tick(keys) ==
    /\ ticks < MaxTicks
    /\ \E in \in keys :
          /\ in = input \/ (~pressed /\ ticks <= MaxIdle)
          /\ update(in)
    /\ level' <= MaxLevel

Next == Tick(InputState)

Spec == Init /\ [][Next]_vars

(***************************************************************************)
(* A game whose rocks all lie behind the player, who turns right with the  *)
(* fire key held from some tick on.                                        *)
(***************************************************************************)
InitBehind == new(Batch(INITIAL_ROCKS, Behind, Behind))

NextTurning == Tick({InputDefault, [xaxis |-> 1, yaxis |-> 0, fire |-> TRUE]})

SpecTurning == InitBehind /\ [][NextTurning]_vars

(***************************************************************************)
(* create_rocks called on its own                                          *)
(***************************************************************************)
\* the radii of a call
CallRadii == {F32(0), F32(SPAWN_MIN_RADIUS), F32(SPAWN_MAX_RADIUS)}

\* the exclusion centres of a call
CallCentres == {<<F32(0), F32(0)>>, <<F32(150), F32(-70)>>}

\* the rands of the angles of a call: the sixteenths of a turn
CallAngles == {k * (RandScale \div 16) : k \in 0 .. 15}

\* the random numbers of a rock of a call: an angle on a quarter turn or off
\* it, and the least and the greatest rand
CallDraws == {Draw(a, d, a, d) : a \in CallAngles, d \in {0, RandScale - 1}}

\* create_rocks(ctx, num, exclusion, min_radius, max_radius), and what came of it
CallCreateRocks ==
    /\ call = NoCall
    /\ \E num \in 0 .. MaxNum, exclusion \in CallCentres,
          min_radius \in CallRadii, max_radius \in CallRadii :
          \E draws \in [1 .. num -> CallDraws] :
             LET r == create_rocks(next_id, ticks, num, exclusion, min_radius,
                                   max_radius, draws)
             IN  call' = [outcome |-> IF r.panicked THEN "panic" ELSE "returned",
                          num |-> num, exclusion |-> exclusion,
                          min_radius |-> min_radius, max_radius |-> max_radius,
                          rocks |-> r.rocks]
    /\ UNCHANGED <<player, shots, rocks, level, score, input, player_shot_timeout,
                   quit, sounds, at_collision, next_id, last_fire, ticks, pressed>>

SpecSpawner == Init /\ [][CallCreateRocks]_vars

(***************************************************************************)
(* A game whose player turns right for a few ticks and then thrusts straight *)
(* on, with or without the fire key, long enough to reach the speed limit. *)
(***************************************************************************)
\* the number of updates of a thrusting run
MaxThrustTicks == 160
\* the last tick at which the thrusting run may still change its keys
MaxTurn == 4

TurnRight == [xaxis |-> 1, yaxis |-> 0, fire |-> FALSE]

ThrustKeys == {[xaxis |-> 0, yaxis |-> 1, fire |-> f] : f \in BOOLEAN}

TickThrust ==
    /\ ticks < MaxThrustTicks
    /\ \E in \in {TurnRight} \cup ThrustKeys :
          /\ in = input \/ (input \notin ThrustKeys /\ ticks <= MaxTurn)
          /\ update(in)
    /\ level' <= MaxLevel

SpecThrust == InitBehind /\ [][TickThrust]_vars

(***************************************************************************)
(* wrap_actor_position called on its own                                   *)
(***************************************************************************)
\* how many f32 values beyond the edge, and short of it, the coordinates of a
\* call reach
MaxBeyond == 2

\* The coordinates of a call along an axis of size s: the centre, the f32
\* values around both edges (the next f32 in magnitude is the next integer),
\* one screen beyond the edges and two screens out.
CallCoordinates(s) ==
    LET bounds == F32Div(s, F32(2))
    IN  {0} \cup {sign * (bounds + d) : sign \in {-1, 1}, d \in (-MaxBeyond) .. MaxBeyond}
            \cup {sign * F32Add(bounds, s) : sign \in {-1, 1}}
            \cup {sign * F32Mul(F32(2), s) : sign \in {-1, 1}}

\* Actor::wrap_actor_position(actor, sx, sy) called once and then once more, on
\* an actor at pos
CallWrapActorPosition ==
    /\ call = NoCall
    /\ \E x \in CallCoordinates(F32(SCREEN_WIDTH)),
          y \in CallCoordinates(F32(SCREEN_HEIGHT)) :
          LET actor == [player EXCEPT !.pos = <<x, y>>]
              once == wrap_actor_position(actor, F32(SCREEN_WIDTH), F32(SCREEN_HEIGHT))
              twice == wrap_actor_position(once, F32(SCREEN_WIDTH), F32(SCREEN_HEIGHT))
          IN  call' = [outcome |-> "wrapped", actor |-> actor, once |-> once,
                       twice |-> twice]
    /\ UNCHANGED <<player, shots, rocks, level, score, input, player_shot_timeout,
                   quit, sounds, at_collision, next_id, last_fire, ticks, pressed>>

SpecWrap == Init /\ [][CallWrapActorPosition]_vars

(***************************************************************************)
(* Properties                                                              *)
(***************************************************************************)
Ids(actors) == {actors[k].id : k \in DOMAIN actors}

\* the (rock, shot) pairs of indices that overlap in the lists met
HitPairs(met) ==
    {p \in (DOMAIN met.rocks) \X (DOMAIN met.shots) :
        intersects(met.rocks[p[1]], met.shots[p[2]])}

\* the shots of a list that the update number now created
FiredIn(actors, now) == {k \in DOMAIN actors : actors[k].born = now}

\* C1: in every tick, each shot and rock that overlap when handle_collision
\* runs are both left with life <= 0 and are both gone from the lists at the
\* end of the tick, and the score grows by exactly one for each such pair.
C1_OverlapKillsBoth ==
    [][LET met == at_collision'
       IN  /\ score' = score + Cardinality(HitPairs(met))
           /\ \A p \in HitPairs(met) :
                 /\ met.rocks_after[p[1]].life <= 0
                 /\ met.shots_after[p[2]].life <= 0
                 /\ met.rocks[p[1]].id \notin Ids(rocks')
                 /\ met.shots[p[2]].id \notin Ids(shots')]_vars

\* a tick in which a shot overlapped a rock has just run
C1_Witness == HitPairs(at_collision) # {} /\ score > 0 /\ ticks > 0

\* C2: in every tick the score grows by exactly the number of rocks destroyed
\* in that tick, also when several shots overlap one rock.
C2_ScoreCountsRocks ==
    [][score' - score =
          Cardinality({i \in DOMAIN at_collision'.rocks :
                          at_collision'.rocks[i].id \notin Ids(rocks')})]_vars

\* C3: in every tick, if no rock is left after the cull the level grows by
\* exactly one and exactly (new level + 5) rocks, all new, make up the list;
\* otherwise the level is unchanged and the list is exactly the rocks left.
C3_LevelRespawn ==
    [][LET left == {i \in DOMAIN at_collision'.rocks_after :
                       at_collision'.rocks_after[i].life > 0}
       IN  IF left = {}
           THEN /\ level' = level + 1
                /\ Len(rocks') = level' + 5
                /\ \A k \in DOMAIN rocks' : rocks'[k].born = ticks'
           ELSE /\ level' = level
                /\ Len(rocks') = Cardinality(left)
                /\ Ids(rocks') = {at_collision'.rocks_after[i].id : i \in left}]_vars

\* the tick that has just run destroyed the last rocks and raised the level
C3_Witness ==
    /\ level > 0
    /\ at_collision.rocks # <<>>
    /\ \A i \in DOMAIN at_collision.rocks_after : at_collision.rocks_after[i].life <= 0
    /\ Len(rocks) = level + 5

\* C4: at the end of every tick quit has been called if and only if
\* player.life <= 0; a tick in which the player overlaps a rock when
\* handle_collision runs leaves player.life = 0 and calls quit; the player
\* stays an actor of the game.
C4_GameOverSignal ==
    ticks > 0 =>
        /\ quit <=> (player.life <= 0)
        /\ (\E i \in DOMAIN at_collision.rocks :
               intersects(at_collision.rocks[i], at_collision.player))
              => (player.life = 0 /\ quit)
        /\ player.kind = "player" /\ player.id = 0

\* the player overlapped a rock in the tick that has just run
C4_Witness ==
    /\ quit
    /\ \E i \in DOMAIN at_collision.rocks :
          intersects(at_collision.rocks[i], at_collision.player)

\* C5: once player.life <= 0 at the end of a tick, every later tick ends with
\* player.life <= 0 and calls quit again.
C5_GameOverAbsorbing == [][player.life <= 0 => (player'.life <= 0 /\ quit')]_vars

\* the player is dead after a tick in which it overlapped no rock
C5_Witness ==
    /\ player.life <= 0
    /\ ticks > 0
    /\ \A i \in DOMAIN at_collision.rocks :
          ~intersects(at_collision.rocks[i], at_collision.player)

\* C6, as amended: a tick fires a shot if and only if the fire key is down and
\* the cooldown, less this tick's dt, is below 0; it fires at most one; firing
\* resets the cooldown to PLAYER_SHOT_TIME; two consecutive shots are at least
\* 30 ticks apart, and exactly 30 with the fire key held.
C6_CooldownThirtyTicks ==
    [][LET cooled == F32Sub(player_shot_timeout, seconds)
           fired == FiredIn(at_collision'.shots, ticks') # {}
           waited == ticks' - last_fire
       IN  /\ fired <=> (input'.fire /\ cooled < 0)
           /\ Cardinality(FiredIn(at_collision'.shots, ticks')) <= 1
           /\ Len(at_collision'.shots) = Len(shots) + (IF fired THEN 1 ELSE 0)
           /\ fired => (player_shot_timeout' = PLAYER_SHOT_TIME /\ last_fire' = ticks')
           /\ ~fired => (last_fire' = last_fire)
           /\ (fired /\ last_fire > 0) => (waited >= 30)
           /\ (input'.fire /\ last_fire > 0 /\ waited >= 30) => fired]_vars

\* C6, as claimed: two consecutive shots are more than 30 ticks apart, and
\* exactly 31 with the fire key held.
C6_CooldownThirtyOneTicks ==
    [][LET cooled == F32Sub(player_shot_timeout, seconds)
           fired == FiredIn(at_collision'.shots, ticks') # {}
           waited == ticks' - last_fire
       IN  /\ fired <=> (input'.fire /\ cooled < 0)
           /\ Cardinality(FiredIn(at_collision'.shots, ticks')) <= 1
           /\ fired => (player_shot_timeout' = PLAYER_SHOT_TIME)
           /\ (fired /\ last_fire > 0) => (waited > 30)
           /\ (input'.fire /\ last_fire > 0 /\ waited >= 31) => fired]_vars

\* a shot has just been fired while the shot fired 30 ticks before still flies
C6_Witness ==
    /\ last_fire = ticks
    /\ \E k \in DOMAIN shots : shots[k].born = ticks - 30

\* C7: a tick with the fire key down and the cooldown, less this tick's dt,
\* at 0 or above appends no shot, plays no shot sound and leaves the cooldown
\* at its value less dt.
C7_FireIgnoredWhileCooling ==
    [][(input'.fire /\ F32Sub(player_shot_timeout, seconds) >= 0) =>
          /\ Len(at_collision'.shots) = Len(shots)
          /\ FiredIn(at_collision'.shots, ticks') = {}
          /\ \A k \in DOMAIN sounds' : sounds'[k] # "shot"
          /\ player_shot_timeout' = F32Sub(player_shot_timeout, seconds)
          /\ last_fire' = last_fire
          /\ ticks' = ticks + 1]_vars

\* the fire key was down in a tick that found the cooldown running
C7_Witness ==
    /\ input.fire
    /\ 0 < last_fire /\ last_fire < ticks
    /\ player_shot_timeout >= 0

\* C8: a shot starts at life 2.0 and loses dt in every tick from the one that
\* created it on, and no shot is in the list at the end of its 121st tick: a
\* shot in the list has been through at most 120.
C8_ShotsExpire ==
    [][\A k \in DOMAIN shots' :
          LET s == shots'[k]
          IN  /\ ticks' - s.born + 1 <= 120
              /\ (s.born = ticks') => (s.life = F32Sub(SHOT_LIFE, seconds))
              /\ (s.born < ticks') =>
                    \E j \in DOMAIN shots :
                       shots[j].id = s.id /\ s.life = F32Sub(shots[j].life, seconds)]_vars

\* a shot that hit nothing ran out in its 121st tick and is gone
C8_Witness ==
    \E k \in DOMAIN at_collision.shots_after :
       /\ ticks - at_collision.shots_after[k].born + 1 = 121
       /\ at_collision.shots_after[k].life < 0
       /\ at_collision.shots_after[k].id \notin Ids(shots)

(***************************************************************************)
(* Exact arithmetic, for the properties that measure lengths.  A natural   *)
(* number is the sequence of its digits in base 4096, the least first; a   *)
(* real <<sign, digits, offset>> is sign * digits * 4096^offset.           *)
(***************************************************************************)
Digit(a, i) == IF i <= Len(a) THEN a[i] ELSE 0

Longest(a, b) == IF Len(a) >= Len(b) THEN Len(a) ELSE Len(b)

RECURSIVE NatAddFrom(_, _, _, _)
NatAddFrom(a, b, i, carry) ==
    IF i > Longest(a, b) THEN (IF carry = 0 THEN <<>> ELSE <<carry>>)
    ELSE <<(Digit(a, i) + Digit(b, i) + carry) % 4096>>
            \o NatAddFrom(a, b, i + 1, (Digit(a, i) + Digit(b, i) + carry) \div 4096)

NatAdd(a, b) == NatAddFrom(a, b, 1, 0)

RECURSIVE NatSubFrom(_, _, _, _)
\* a - b for a >= b
NatSubFrom(a, b, i, borrow) ==
    IF i > Longest(a, b) THEN <<>>
    ELSE <<(Digit(a, i) - Digit(b, i) - borrow) % 4096>>
            \o NatSubFrom(a, b, i + 1,
                          IF Digit(a, i) - Digit(b, i) - borrow < 0 THEN 1 ELSE 0)

NatSub(a, b) == NatSubFrom(a, b, 1, 0)

RECURSIVE NatCompareFrom(_, _, _)
\* the sign of a - b
NatCompareFrom(a, b, i) ==
    IF i = 0 THEN 0
    ELSE IF Digit(a, i) # Digit(b, i) THEN Sign(Digit(a, i) - Digit(b, i))
    ELSE NatCompareFrom(a, b, i - 1)

NatCompare(a, b) == NatCompareFrom(a, b, Longest(a, b))

RECURSIVE NatTimesDigit(_, _, _, _)
NatTimesDigit(a, d, i, carry) ==
    IF i > Len(a) THEN (IF carry = 0 THEN <<>> ELSE <<carry>>)
    ELSE <<(a[i] * d + carry) % 4096>>
            \o NatTimesDigit(a, d, i + 1, (a[i] * d + carry) \div 4096)

RECURSIVE NatMulFrom(_, _, _)
NatMulFrom(a, b, j) ==
    IF j > Len(b) THEN <<>>
    ELSE NatAdd(NatTimesDigit(a, b[j], 1, 0), <<0>> \o NatMulFrom(a, b, j + 1))

NatMul(a, b) == NatMulFrom(a, b, 1)

\* the digits of a moved up by k places
NatShift(a, k) == [i \in 1 .. k |-> 0] \o a

\* the exact value of the f32 p
Real(p) ==
    LET x == Exponent(p) - F32Bias
        low == (Mantissa(p) % 4096) * 2^(x % 12)
        high == (Mantissa(p) \div 4096) * 2^(x % 12) + (low \div 4096)
    IN  IF p = 0 THEN <<1, <<>>, 0>>
        ELSE <<Sign(p), <<low % 4096, high % 4096, high \div 4096>>, x \div 12>>

RealNeg(a) == <<-a[1], a[2], a[3]>>

RealMul(a, b) == <<a[1] * b[1], NatMul(a[2], b[2]), a[3] + b[3]>>

\* the sum of two reals of the same offset
RealAddAligned(a, b) ==
    IF a[1] = b[1] THEN <<a[1], NatAdd(a[2], b[2]), a[3]>>
    ELSE IF NatCompare(a[2], b[2]) >= 0 THEN <<a[1], NatSub(a[2], b[2]), a[3]>>
    ELSE <<b[1], NatSub(b[2], a[2]), a[3]>>

RealAdd(a, b) ==
    IF a[3] >= b[3]
    THEN RealAddAligned(<<a[1], NatShift(a[2], a[3] - b[3]), b[3]>>, b)
    ELSE RealAddAligned(a, <<b[1], NatShift(b[2], b[3] - a[3]), a[3]>>)

RealSub(a, b) == RealAdd(a, RealNeg(b))

RealSquare(a) == RealMul(a, a)

\* a is 0 or below
RealNotPositive(a) == a[1] < 0 \/ \A i \in DOMAIN a[2] : a[2][i] = 0

\* a <= b
RealLeq(a, b) == RealNotPositive(RealSub(a, b))

\* the squared length of the vector of f32 components v
LengthSquared(v) == RealAdd(RealSquare(Real(v[1])), RealSquare(Real(v[2])))

\* the squared distance of the f32 positions a and b
DistanceSquared(a, b) ==
    RealAdd(RealSquare(RealSub(Real(a[1]), Real(b[1]))),
            RealSquare(RealSub(Real(a[2]), Real(b[2]))))

\* the rounding allowed on a distance: 2^-13 px, four units in the last place
\* of a coordinate of 256 px and above
RingEpsilon == Real(F32Div(F32(1), F32(8192)))

\* the distance of pos to the centre is at least lo and at most hi (lo, hi >= 0)
InRing(pos, centre, lo, hi) ==
    /\ RealLeq(RealSquare(lo), DistanceSquared(pos, centre))
    /\ RealLeq(DistanceSquared(pos, centre), RealSquare(hi))

\* C9, as amended: a call of create_rocks with num >= 0 and min_radius <
\* max_radius returns, and returns exactly num rocks, each of life 1.0 and at
\* a distance from the exclusion centre of at least min_radius and at most
\* max_radius up to the rounding of sin, cos and the products.
C9_SpawnerRingWithinEpsilon ==
    (call.outcome \in {"panic", "returned"} /\ call.min_radius < call.max_radius) =>
        /\ call.outcome = "returned"
        /\ Len(call.rocks) = call.num
        /\ \A k \in DOMAIN call.rocks :
              /\ call.rocks[k].life = ROCK_LIFE
              /\ InRing(call.rocks[k].pos, call.exclusion,
                        IF call.min_radius = 0 THEN Real(0)
                        ELSE RealSub(Real(call.min_radius), RingEpsilon),
                        RealAdd(Real(call.max_radius), RingEpsilon))

\* C9, as claimed: a call of create_rocks with num >= 0 and min_radius <
\* max_radius returns, and returns exactly num rocks, each of life 1.0 and at a
\* distance from the exclusion centre of at least min_radius and at most
\* max_radius.
C9_SpawnerPostcondition ==
    (call.outcome \in {"panic", "returned"} /\ call.min_radius < call.max_radius) =>
        /\ call.outcome = "returned"
        /\ Len(call.rocks) = call.num
        /\ \A k \in DOMAIN call.rocks :
              /\ call.rocks[k].life = ROCK_LIFE
              /\ InRing(call.rocks[k].pos, call.exclusion,
                        Real(call.min_radius), Real(call.max_radius))

\* a call around the origin returned two rocks drawn at the least distance:
\* the one straight ahead lies at min_radius exactly, the one on the diagonal
\* (rand 1/8) a rounding short of min_radius
C9_Witness ==
    /\ call.outcome = "returned"
    /\ call.min_radius = F32(SPAWN_MIN_RADIUS) /\ call.max_radius = F32(SPAWN_MAX_RADIUS)
    /\ call.exclusion = <<0, 0>>
    /\ call.num = 2
    /\ call.rocks[1].pos = <<0, F32(SPAWN_MIN_RADIUS)>>
    /\ call.rocks[2].pos[1] = call.rocks[2].pos[2]
    /\ ~RealLeq(RealSquare(Real(F32(SPAWN_MIN_RADIUS))),
                DistanceSquared(call.rocks[2].pos, call.exclusion))

\* C10: a call of create_rocks with max_radius <= min_radius panics, whatever
\* num is; it returns no list.
C10_BadRadiiPanic ==
    (call.outcome # "none" /\ call.max_radius <= call.min_radius) =>
        call.outcome = "panic"

\* the speed limit, and the rounding allowed above it: 2^-14 px/s, four units
\* in the last place of 250
MaxSpeed == Real(F32(MAX_PHYSICS_VEL))

VelEpsilon == Real(F32Div(F32(1), F32(16384)))

\* the code's test of a velocity against the limit
AboveLimit(v) ==
    magnitude_squared(v) > F32Mul(F32(MAX_PHYSICS_VEL), F32(MAX_PHYSICS_VEL))

\* Velocity post is velocity pre rescaled: the same direction up to rounding
\* (the sine of the angle between them is at most 2^-20).
SameDirection(pre, post) ==
    LET cross == RealSub(RealMul(Real(post[1]), Real(pre[2])),
                         RealMul(Real(post[2]), Real(pre[1])))
        dot == RealAdd(RealMul(Real(post[1]), Real(pre[1])),
                       RealMul(Real(post[2]), Real(pre[2])))
        scale == Real(F32(1048576))
    IN  /\ ~RealNotPositive(dot)
        /\ RealLeq(RealMul(scale, cross), dot)
        /\ RealLeq(RealMul(scale, RealNeg(cross)), dot)

\* the player's velocity when the update about to end reached update_actor_position
Thrusted == player_handle_input(player, input', seconds).velocity

\* C11, as amended: at the end of every tick the speed of the player and of
\* every shot is at most MAX_PHYSICS_VEL plus the rounding of the rescaling; a
\* velocity above the limit is rescaled in its own direction, one at or below
\* it is left as it is.
C11_SpeedWithinEpsilon ==
    [][/\ RealLeq(LengthSquared(player'.velocity),
                  RealSquare(RealAdd(MaxSpeed, VelEpsilon)))
       /\ \A k \in DOMAIN shots' :
             RealLeq(LengthSquared(shots'[k].velocity), RealSquare(MaxSpeed))
       /\ IF AboveLimit(Thrusted)
          THEN SameDirection(Thrusted, player'.velocity)
          ELSE player'.velocity = Thrusted]_vars

\* C11, as claimed: at the end of every tick the speed of the player and of
\* every shot is at most MAX_PHYSICS_VEL.
C11_SpeedAtMostLimit ==
    [][/\ RealLeq(LengthSquared(player'.velocity), RealSquare(MaxSpeed))
       /\ \A k \in DOMAIN shots' :
             RealLeq(LengthSquared(shots'[k].velocity), RealSquare(MaxSpeed))]_vars

\* the player, thrusting off the axes with a shot in flight, has been slowed to
\* the limit and the rescaled velocity is a rounding above it
C11_Witness ==
    /\ input.yaxis = 1
    /\ shots # <<>>
    /\ player.velocity[1] # 0
    /\ ~RealLeq(LengthSquared(player.velocity), RealSquare(MaxSpeed))

\* a position within the playing field, its edges included
InBounds(pos) ==
    /\ Abs(pos[1]) <= F32Div(F32(SCREEN_WIDTH), F32(2))
    /\ Abs(pos[2]) <= F32Div(F32(SCREEN_HEIGHT), F32(2))

\* C12: at the end of every tick the player and every shot lie within the
\* playing field: |x| <= width / 2 and |y| <= height / 2.
C12_WrapKeepsInBounds ==
    /\ InBounds(player.pos)
    /\ \A k \in DOMAIN shots : InBounds(shots[k].pos)

\* the player, flying up, has crossed the upper edge and come back in at the
\* lower one, and so has a shot
C12_Witness ==
    /\ player.velocity[2] > 0 /\ player.pos[2] < 0
    /\ \E k \in DOMAIN shots : shots[k].velocity[2] > 0 /\ shots[k].pos[2] < player.pos[2]

\* a position at most one screen size beyond the playing field
WithinOneScreen(pos) ==
    /\ Abs(pos[1]) <= F32((3 * SCREEN_WIDTH) \div 2)
    /\ Abs(pos[2]) <= F32((3 * SCREEN_HEIGHT) \div 2)

\* C13: wrap_actor_position leaves a position within the playing field, its
\* edges included, as it is; applied twice to a position at most one screen
\* size beyond the field it gives what it gives applied once.
C13_WrapIdempotent ==
    call.outcome = "wrapped" =>
        /\ InBounds(call.actor.pos) => call.once = call.actor
        /\ WithinOneScreen(call.actor.pos) =>
               (call.twice = call.once /\ InBounds(call.once.pos))

\* a call on the right edge and one screen below the field: the first wrap
\* leaves x on the edge and brings y back to the lower edge, the second
\* changes nothing
C13_Witness ==
    /\ call.outcome = "wrapped"
    /\ call.actor.pos[1] = F32(SCREEN_WIDTH \div 2)
    /\ call.actor.pos[2] = F32(-((3 * SCREEN_HEIGHT) \div 2))
    /\ call.once.pos = <<F32(SCREEN_WIDTH \div 2), F32(-(SCREEN_HEIGHT \div 2))>>
    /\ call.twice = call.once

\* C14: in every tick each rock that stays in the list advances by its
\* velocity * dt, as the player and the shots do.
C14_RocksDrift ==
    [][\A k \in DOMAIN rocks' :
          \A j \in DOMAIN rocks :
             rocks[j].id = rocks'[k].id =>
                LET moved == update_actor_position(rocks[j], seconds)
                IN  rocks'[k].pos \in
                       {moved.pos,
                        wrap_actor_position(moved, F32(SCREEN_WIDTH),
                                            F32(SCREEN_HEIGHT)).pos}]_vars

\* C15: at the end of every tick, and at the start, every shot and every rock
\* in the lists has life > 0.
C15_CullInvariant ==
    /\ \A k \in DOMAIN shots : shots[k].life > 0
    /\ \A k \in DOMAIN rocks : rocks[k].life > 0

\* the tick that has just run culled a shot that ran out, or a shot and a rock
\* that met, and left other shots and rocks in the lists
C15_Witness ==
    /\ \E k \in DOMAIN at_collision.shots_after : at_collision.shots_after[k].life <= 0
    /\ \E k \in DOMAIN at_collision.rocks_after : at_collision.rocks_after[k].life <= 0
    /\ shots # <<>>
    /\ \E k \in DOMAIN rocks : rocks[k].born < ticks

\* C16: at the end of every tick every rock lies within the playing field.
C16_RocksInBounds == \A k \in DOMAIN rocks : InBounds(rocks[k].pos)

\* C17: a shot fired in a tick has the player's facing after the tick's turn,
\* velocity vec_from_angle(facing) * SHOT_SPEED, and the player's position
\* before the tick's integration advanced by one step of its own and wrapped;
\* it has lost dt of its life, and it is tested against the rocks in that tick:
\* it is killed and culled if it overlaps one, and stays in the list if not.
C17_NewShotStepOrder ==
    [][\A k \in FiredIn(at_collision'.shots, ticks') :
          \A xaxis \in {input'.xaxis} :
          \A facing \in {F32Add(player.facing,
                                F32Mul(F32Mul(seconds, F32(PLAYER_TURN_RATE)),
                                       F32(xaxis)))} :
          \A v \in {Scaled(vec_from_angle(facing), F32(SHOT_SPEED))} :
             LET s == at_collision'.shots[k]
             IN  /\ s.facing = facing
                 /\ s.velocity = v
                 /\ s.pos = <<wrap_coordinate(F32Add(player.pos[1], F32Mul(v[1], seconds)),
                                             F32(SCREEN_WIDTH)),
                              wrap_coordinate(F32Add(player.pos[2], F32Mul(v[2], seconds)),
                                             F32(SCREEN_HEIGHT))>>
                 /\ s.life = F32Sub(SHOT_LIFE, seconds)
                 /\ IF \E i \in DOMAIN at_collision'.rocks :
                           intersects(at_collision'.rocks[i], s)
                    THEN at_collision'.shots_after[k].life = 0 /\ s.id \notin Ids(shots')
                    ELSE s.id \in Ids(shots')]_vars

\* a shot has just been fired by a player that turned and moved in that tick
C17_Witness ==
    /\ last_fire = ticks /\ ticks > 1
    /\ input.xaxis # 0
    /\ player.velocity # <<0, 0>>
    /\ player.pos # <<0, 0>>
    /\ \E k \in DOMAIN shots : shots[k].born = ticks /\ shots[k].facing = player.facing

\* C18: at the start and at the end of every tick the rocks list holds at
\* least one rock and at most level + 5; it holds exactly level + 5 at the end
\* of a tick that raised the level, and 5 at level 0 at the start.
C18_RocksCount ==
    /\ [](1 <= Len(rocks) /\ Len(rocks) <= level + 5)
    /\ [](ticks = 0 => (level = 0 /\ Len(rocks) = 5))
    /\ [][level' # level => Len(rocks') = level' + 5]_vars

\* past the first level, a shot has destroyed some of the rocks and not all
C18_Witness ==
    /\ level > 0
    /\ Len(rocks) < level + 5
    /\ \E k \in DOMAIN rocks : rocks[k].born > 0

\* C19: at the end of every tick the shots list holds at most 4 shots.
C19_AtMostFourShots == Len(shots) <= 4

\* four shots fly at the end of the tick that fired the fifth shot and culled
\* the first
C19_Witness ==
    /\ Len(shots) = 4
    /\ last_fire = ticks
    /\ \E k \in DOMAIN at_collision.shots_after :
          /\ at_collision.shots_after[k].born = ticks - 120
          /\ at_collision.shots_after[k].id \notin Ids(shots)

\* the rocks destroyed up to a state: all those of the levels passed, and those
\* missing from the list of the level reached
RocksDestroyed ==
    5 * level + (level * (level - 1)) \div 2 + (level + 5 - Len(rocks))

\* C20: a rock leaves the list only in a tick in which a shot overlapped it, a
\* rock the player ran into stays; score and level never decrease, the level
\* rises by at most 1 per tick, and the score is at least the number of rocks
\* destroyed so far.
C20_ScoreLowerBound ==
    /\ [](score >= RocksDestroyed)
    /\ [][/\ score' >= score
          /\ level' >= level /\ level' <= level + 1
          /\ \A i \in DOMAIN at_collision'.rocks :
                LET rock == at_collision'.rocks[i]
                IN  (rock.id \notin Ids(rocks')) <=>
                       (\E j \in DOMAIN at_collision'.shots :
                           intersects(rock, at_collision'.shots[j]))]_vars

\* the player has run into a rock in the tick that has just run, and the rock
\* is still in the list
C20_Witness ==
    /\ ticks > 0
    /\ player.life <= 0
    /\ \E k \in DOMAIN rocks :
          /\ intersects(rocks[k], at_collision.player)
          /\ rocks[k].born < ticks

====
